---- MODULE Spec2Model ----
(***************************************************************************)
(* verify_mcp_references.py: a checker that searches five deployment files *)
(* for expected regular-expression patterns, merges the per-file results   *)
(* into one insertion-ordered mapping and prints it.                       *)
(*                                                                         *)
(* Text is modelled as a sequence of lexemes (a word of the file, a single *)
(* character, or a newline); a pattern is the sequence of its literal      *)
(* lexemes and of the regex tokens "." and ".*" it contains.  A match      *)
(* aligns on lexeme boundaries.                                            *)
(***************************************************************************)
EXTENDS Naturals, Sequences, FiniteSets

\* Longest file content, in lexemes.
MaxLen == 4
\* Longest mapping given to a stand-alone merge.
MaxDict == 2

\* The status glyphs (U+2705 and U+274C in the source), named by code point.
PassGlyph == "U+2705"
FailGlyph == "U+274C"
\* The marker without its glyph (a wrong marker).
PlainMissingStatus == "FILE MISSING"
\* "<fail glyph> FILE MISSING"
MissingStatus == FailGlyph \o " FILE MISSING"

NL == "\n"

\* A manifest with one pattern declared by two entries (a wrong manifest).
ManifestTwice ==
  << [file |-> "docker-compose.yml",
      patterns |-> <<"volumes:.*mcp_config.db", "command:.*dev",
                     "certbot/certbot", "9229">>],
     [file |-> "nginx.conf",
      patterns |-> <<"listen 443 ssl", "certbot/certbot",
                     "proxy_pass http://app:3000">>],
     [file |-> ".env.example",
      patterns |-> <<"NODE_ENV", "PORT", "MCP_DB_PATH", "DEBUG_MODE">>],
     [file |-> "src/lib/mcp/config.ts",
      patterns |-> <<"sqlite3", "MCP_COOKIE_KEY">>],
     [file |-> "src/app/api/mcp/config/route.ts",
      patterns |-> <<"session_id", "INSERT OR REPLACE">>] >>
\* The five results.update(check(file, [patterns])) calls, in program order.
Manifest ==
  << [file |-> "docker-compose.yml",
      patterns |-> <<"volumes:.*mcp_config.db", "command:.*dev",
                     "certbot/certbot", "9229">>],
     [file |-> "nginx.conf",
      patterns |-> <<"listen 443 ssl", "certbot",
                     "proxy_pass http://app:3000">>],
     [file |-> ".env.example",
      patterns |-> <<"NODE_ENV", "PORT", "MCP_DB_PATH", "DEBUG_MODE">>],
     [file |-> "src/lib/mcp/config.ts",
      patterns |-> <<"sqlite3", "MCP_COOKIE_KEY">>],
     [file |-> "src/app/api/mcp/config/route.ts",
      patterns |-> <<"session_id", "INSERT OR REPLACE">>] >>

NumEntries == Len(Manifest)

\* The pattern as the regex compiler reads it: its literal lexemes, "." for
\* "any character but a newline" and ".*" for its greedy repetition.
Lex(pattern) ==
  CASE pattern = "volumes:.*mcp_config.db" ->
         <<"volumes:", ".*", "mcp_config", ".", "db">>
    [] pattern = "command:.*dev" -> <<"command:", ".*", "dev">>
    [] OTHER -> <<pattern>>

IsWild(tok) == tok \in {".", ".*"}

\* Lexemes that are one character long: the only ones a "." can consume.
OneChar == {".", ":", "/", NL}

\* What "." matches without re.DOTALL: any single character except newline.
DotMatches(c) == c \in OneChar /\ c # NL

\* What ".*" may run over: any characters except newline.
StarMatches(c) == c # NL

\* Whether the tokens from the k-th on match the text at position i
\* (a prefix match: the text may go on after the match).
RECURSIVE MatchAt(_, _, _, _)
MatchAt(toks, k, s, i) ==
  IF k > Len(toks) THEN TRUE
  ELSE IF toks[k] = ".*"
    THEN \E j \in i..(Len(s) + 1) :
           /\ \A q \in i..(j - 1) : StarMatches(s[q])
           /\ MatchAt(toks, k + 1, s, j)
  ELSE IF i > Len(s) THEN FALSE
  ELSE IF toks[k] = "."
    THEN DotMatches(s[i]) /\ MatchAt(toks, k + 1, s, i + 1)
  ELSE s[i] = toks[k] /\ MatchAt(toks, k + 1, s, i + 1)

\* The start positions of re.match: the first only (a wrong search).
AnchoredStarts(s) == {1}
\* The start positions re.search tries: every one.
SearchStarts(s) == 1..(Len(s) + 1)

\* re.search(pattern, content) is not None
Search(pattern, content) ==
  \E i \in SearchStarts(content) : MatchAt(Lex(pattern), 1, content, i)

\* ---- dict: an insertion-ordered mapping, as a sequence of <<key, value>>

Keys(d) == {d[n][1] : n \in 1..Len(d)}
KeySeq(d) == [n \in 1..Len(d) |-> d[n][1]]
HasKey(d, k) == k \in Keys(d)
PosOf(d, k) == CHOOSE n \in 1..Len(d) : d[n][1] = k
Get(d, k) == d[PosOf(d, k)][2]

\* d[k] = v, dropping the earlier value and line of k (a wrong merge).
SetItemMoveToEnd(d, k, v) ==
  Append(SelectSeq(d, LAMBDA kv : kv[1] # k), <<k, v>>)
\* d[k] = v, a new key going first (a wrong order).
SetItemFront(d, k, v) ==
  IF HasKey(d, k)
    THEN [d EXCEPT ![PosOf(d, k)] = <<k, v>>]
    ELSE <<<<k, v>>>> \o d
\* d[k] = v: a present key keeps its position and takes the value, a new
\* key goes last.
SetItem(d, k, v) ==
  IF HasKey(d, k)
    THEN [d EXCEPT ![PosOf(d, k)] = <<k, v>>]
    ELSE Append(d, <<k, v>>)

\* d.update(other): other's items set in other's order.
RECURSIVE Update(_, _)
Update(d, other) ==
  IF other = <<>> THEN d
  ELSE Update(SetItem(d, Head(other)[1], Head(other)[2]), Tail(other))

\* ---- the file system as one check() call sees it

Missing == [kind |-> "missing", content |-> <<>>]
Unreadable == [kind |-> "unreadable", content |-> <<>>]
Text(c) == [kind |-> "text", content |-> c]

\* What check() gives back when path.read_text() raises.
Raised == <<<<"raised", "raised">>>>

\* {pattern: pass if re.search(pattern, content) else fail for pattern in patterns}
Result(patterns, content) ==
  Update(<<>>, [n \in 1..Len(patterns) |->
     <<patterns[n],
       IF Search(patterns[n], content) THEN PassGlyph ELSE FailGlyph>>])

\* One item per pattern for a missing file (a wrong result).
MissingResultPerPattern(file, patterns) ==
  [n \in 1..Len(patterns) |-> <<patterns[n], MissingStatus>>]
\* {file: "<fail glyph> FILE MISSING"}
MissingResult(file, patterns) == << <<file, MissingStatus>> >>

\* check() without its path.exists() test: the read raises (a wrong check).
checkNoExistsTest(file, patterns, st) ==
  IF st.kind = "text" THEN Result(patterns, st.content) ELSE Raised
\* check(file, patterns)
check(file, patterns, st) ==
  IF st.kind = "missing" THEN MissingResult(file, patterns)
  ELSE IF st.kind = "unreadable" THEN Raised
  ELSE Result(patterns, st.content)

\* ---- the inputs: what each target file may be when it is checked

Range(s) == {s[n] : n \in 1..Len(s)}

Literals(e) ==
  {tok \in UNION {Range(Lex(p)) : p \in Range(Manifest[e].patterns)} :
     ~IsWild(tok)}

\* Lexemes a file may hold besides the literals its patterns look for.
Noise == << {"."}, {}, {"port"}, {}, {} >>

Alphabet(e) == Literals(e) \cup {NL} \cup Noise[e]

Contents(e) == UNION {[1..n -> Alphabet(e)] : n \in 0..MaxLen}

FileStates(e) == {Missing, Unreadable} \cup {Text(c) : c \in Contents(e)}

\* What the e-th check() call can see and give back: one outcome per state
\* of its file.
Outcomes ==
  [e \in 1..NumEntries |->
     {[kind |-> st.kind,
       ret |-> check(Manifest[e].file, Manifest[e].patterns, st)] :
        st \in FileStates(e)}]

\* The line without the space after the colon (a wrong format).
LineNoSpace(kv) == kv[1] \o ":" \o kv[2]
\* print(f"{k}: {v}")
Line(kv) == kv[1] \o ": " \o kv[2]

\* ---- the state

VARIABLES
  pc,        \* "check", "print", "done" (exit status 0), "crashed" (exit 1)
  idx,       \* the manifest entry to check next, or the line to print next
  results,   \* the results dict
  out,       \* the lines printed so far
  calls,     \* history: per check() call, what its file was and its return
  cPc, cEntry, cState, cRet,   \* one check() call on its own
  mPc, mAcc, mNew, mOut        \* one dict.update on its own

runVars == <<pc, idx, results, out, calls>>
checkVars == <<cPc, cEntry, cState, cRet>>
mergeVars == <<mPc, mAcc, mNew, mOut>>
vars == <<runVars, checkVars, mergeVars>>

RunIdle ==
  pc = "idle" /\ idx = 0 /\ results = <<>> /\ out = <<>> /\ calls = <<>>
CheckIdle == cPc = "idle" /\ cEntry = 0 /\ cState = Missing /\ cRet = <<>>
MergeIdle == mPc = "idle" /\ mAcc = <<>> /\ mNew = <<>> /\ mOut = <<>>

\* ---- the run: the module body

Init ==
  /\ pc = "check" /\ idx = 1 /\ results = <<>> /\ out = <<>> /\ calls = <<>>
  /\ CheckIdle /\ MergeIdle

\* Each entry's lines printed as soon as it is checked (a wrong report).
LinesEager(ret) == [n \in 1..Len(ret) |-> Line(ret[n])]
\* The lines a step of the checking phase prints: none.
LinesWhileChecking(ret) == <<>>

\* results.update(check(file, [...])) for the e-th manifest entry
CheckEntry(e) ==
  /\ pc = "check" /\ idx = e
  /\ \E o \in Outcomes[e] :
       /\ calls' = Append(calls, o)
       /\ IF o.ret = Raised
            THEN pc' = "crashed" /\ UNCHANGED <<idx, results, out>>
            ELSE /\ results' = Update(results, o.ret)
                 /\ out' = out \o LinesWhileChecking(o.ret)
                 /\ IF e = NumEntries
                      THEN pc' = "print" /\ idx' = 1
                      ELSE pc' = "check" /\ idx' = e + 1
  /\ UNCHANGED <<checkVars, mergeVars>>

\* one turn of: for k, v in results.items(): print(...)
PrintLine ==
  /\ pc = "print" /\ idx <= Len(results)
  /\ out' = Append(out, Line(results[idx]))
  /\ idx' = idx + 1
  /\ UNCHANGED <<pc, results, calls, checkVars, mergeVars>>

\* the loop is over and the interpreter exits
Exit ==
  /\ pc = "print" /\ idx > Len(results)
  /\ pc' = "done"
  /\ UNCHANGED <<idx, results, out, calls, checkVars, mergeVars>>

Next == (\E e \in 1..NumEntries : CheckEntry(e)) \/ PrintLine \/ Exit

Spec == Init /\ [][Next]_vars

\* The exit status of a run that ended: 1 after an uncaught exception.
ExitStatus == IF pc = "crashed" THEN 1 ELSE 0

\* ---- one check() call, its file in any state

InitCheck ==
  /\ RunIdle /\ MergeIdle
  /\ cPc = "call" /\ cRet = <<>>
  /\ cEntry \in 1..NumEntries
  /\ cState \in FileStates(cEntry)

CallCheck ==
  /\ cPc = "call"
  /\ cRet' = check(Manifest[cEntry].file, Manifest[cEntry].patterns, cState)
  /\ cPc' = "ret"
  /\ UNCHANGED <<cEntry, cState, runVars, mergeVars>>

NextCheck == CallCheck

SpecCheck == InitCheck /\ [][NextCheck]_vars

\* ---- one results.update(other), both dicts arbitrary

MergeKeys == {Manifest[1].file, Manifest[1].patterns[3], Manifest[2].patterns[2]}
Statuses == {PassGlyph, FailGlyph, MissingStatus}

IsDict(d) == \A m, n \in 1..Len(d) : d[m][1] = d[n][1] => m = n
Dicts ==
  {d \in UNION {[1..n -> MergeKeys \X Statuses] : n \in 0..MaxDict} : IsDict(d)}

InitMerge ==
  /\ RunIdle /\ CheckIdle
  /\ mPc = "call" /\ mOut = <<>>
  /\ mAcc \in Dicts /\ mNew \in Dicts

CallUpdate ==
  /\ mPc = "call"
  /\ mOut' = Update(mAcc, mNew)
  /\ mPc' = "ret"
  /\ UNCHANGED <<mAcc, mNew, runVars, checkVars>>

NextMerge == CallUpdate

SpecMerge == InitMerge /\ [][NextMerge]_vars

\* ---- what a match is, stated on the text rather than on the search

\* Whether the whole of w is in the language of the tokens; dotall says
\* whether "." and ".*" also take a newline.
RECURSIVE InLang(_, _, _)
InLang(toks, w, dotall) ==
  IF toks = <<>> THEN w = <<>>
  ELSE IF Head(toks) = ".*"
    THEN \E n \in 0..Len(w) :
           /\ dotall \/ \A q \in 1..n : w[q] # NL
           /\ InLang(Tail(toks), SubSeq(w, n + 1, Len(w)), dotall)
  ELSE /\ w # <<>>
       /\ IF Head(toks) = "."
            THEN Head(w) \in OneChar /\ (dotall \/ Head(w) # NL)
            ELSE Head(w) = Head(toks)
       /\ InLang(Tail(toks), Tail(w), dotall)

\* Some stretch of the content, anywhere in it, is a match of the pattern.
ContainsMatch(pattern, content, dotall) ==
  \E i \in 1..(Len(content) + 1) : \E j \in (i - 1)..Len(content) :
     InLang(Lex(pattern), SubSeq(content, i, j), dotall)

HasStar(pattern) == ".*" \in Range(Lex(pattern))

Returned == cPc = "ret"
ReadText == Returned /\ cState.kind = "text"
Patterns(e) == Manifest[e].patterns

\* C1: for a file that exists and is readable, check() returns exactly the
\* entry's patterns as keys, verbatim and in order, each mapped to the pass
\* glyph if the content contains a match for it (anywhere, "." and ".*" not
\* crossing a newline) and to the fail glyph otherwise.
C1_PatternStatus ==
  ReadText =>
    /\ KeySeq(cRet) = Patterns(cEntry)
    /\ \A n \in 1..Len(cRet) :
         cRet[n][2] = IF ContainsMatch(cRet[n][1], cState.content, FALSE)
                        THEN "U+2705" ELSE "U+274C"

\* A wildcard pattern found in the middle of the file, another pattern absent.
C1_Witness ==
  /\ ReadText /\ cEntry = 1
  /\ Len(cState.content) = MaxLen /\ cState.content[1] = NL
  /\ Get(cRet, "command:.*dev") = PassGlyph
  /\ Get(cRet, "9229") = FailGlyph

\* C5 as claimed: a pattern with a wildcard passes whenever its parts occur
\* in order anywhere in the content, newlines between them or not.
C5_SpansNewlines ==
  ReadText =>
    \A n \in 1..Len(cRet) :
      (HasStar(cRet[n][1]) /\ ContainsMatch(cRet[n][1], cState.content, TRUE))
        => cRet[n][2] = PassGlyph

\* ---- the run

FileOf(n) == Manifest[n].file
Printed == Range(out)
Finished == pc = "done"

\* C2 as claimed: a missing file gives the single item (path, "FILE MISSING"),
\* and a missing .env.example the report line ".env.example: FILE MISSING".
C2_PlainMissing ==
  /\ \A n \in 1..Len(calls) :
       calls[n].kind = "missing" => calls[n].ret = << <<FileOf(n), "FILE MISSING">> >>
  /\ (Finished /\ calls[3].kind = "missing") =>
       ".env.example: FILE MISSING" \in Printed

\* C2: for an entry whose file does not exist check() returns exactly one
\* item: the relative path as given, mapped to the fail glyph followed by
\* " FILE MISSING"; no pattern of the entry is a key. A missing .env.example
\* prints the line ".env.example: <fail glyph> FILE MISSING" and no line for
\* NODE_ENV, PORT, MCP_DB_PATH or DEBUG_MODE.
C2_MissingFile ==
  /\ \A n \in 1..Len(calls) :
       calls[n].kind = "missing" =>
         /\ calls[n].ret = << <<FileOf(n), "U+274C FILE MISSING">> >>
         /\ Keys(calls[n].ret) \cap Range(Patterns(n)) = {}
  /\ (Finished /\ calls[3].kind = "missing") =>
       /\ ".env.example: U+274C FILE MISSING" \in Printed
       /\ \A p \in {"NODE_ENV", "PORT", "MCP_DB_PATH", "DEBUG_MODE"} :
            /\ ~HasKey(results, p)
            /\ \A st \in Statuses : (p \o ": " \o st) \notin Printed

C2_Witness ==
  /\ Finished /\ calls[3].kind = "missing"
  /\ calls[2].kind = "text" /\ calls[4].kind = "text"

AllRead == \A n \in 1..Len(calls) : calls[n].kind # "unreadable"
SomeMissing == \E n \in 1..Len(calls) : calls[n].kind = "missing"
SomeFailed == \E n \in 1..Len(results) : results[n][2] = FailGlyph

ManifestKeys ==
  {Manifest[e].file : e \in 1..NumEntries}
    \cup UNION {Range(Patterns(e)) : e \in 1..NumEntries}

\* How many steps the run has left at most; 0 when it has ended.
Rank ==
  CASE pc = "check" -> (NumEntries + 1 - idx) + Cardinality(ManifestKeys) + 2
    [] pc = "print" -> (Len(results) + 1 - idx) + 1
    [] OTHER -> 0

NoStop ==
  /\ \A n \in 1..Len(calls) :
       calls[n].kind \in {"missing", "text"} => calls[n].ret # Raised
  /\ pc = "crashed" => calls[Len(calls)].kind = "unreadable"
  /\ AllRead =>
       /\ pc \in {"check", "print", "done"}
       /\ pc = "check" => Len(calls) = idx - 1 /\ idx <= NumEntries
       /\ pc \in {"print", "done"} => Len(calls) = NumEntries
       /\ Finished \/ ENABLED Next
  /\ Finished => ExitStatus = 0 /\ Len(out) = Len(results)

\* C3: a missing file or an unmatched pattern never stops the run. check()
\* raises for neither; the entries are checked in turn, one call each; the
\* run ends abnormally only after a read that failed; otherwise a step is
\* always possible until the whole report is printed and the exit status is
\* 0, and every step brings the end nearer.
C3_NeverStops == []NoStop /\ [][Rank' < Rank]_vars

C3_Witness ==
  /\ Finished /\ ExitStatus = 0
  /\ SomeMissing /\ SomeFailed
  /\ Len(calls) = NumEntries

\* The lines of one entry are all printed: one per pattern when its file was
\* read, the one line of the file when it was missing.
EntryReported(n) ==
  LET mine == {m \in 1..Len(out) :
                 \E k \in Range(Patterns(n)) \cup {FileOf(n)} :
                   \E st \in Statuses : out[m] = k \o ": " \o st}
  IN  IF calls[n].kind = "missing"
        THEN /\ Cardinality(mine) = 1
             /\ \E m \in mine : out[m] = Line(<<FileOf(n), MissingStatus>>)
        ELSE /\ Cardinality(mine) = Len(Patterns(n))
             /\ \A k \in Range(Patterns(n)) :
                  \E m \in mine : \E st \in {PassGlyph, FailGlyph} :
                    out[m] = k \o ": " \o st

\* C4 as claimed: in every run, however it ends, every entry whose file
\* exists has its lines printed and every missing one its single line.
C4_EveryRun ==
  pc \in {"done", "crashed"} =>
    \A n \in 1..Len(calls) : calls[n].kind # "unreadable" => EntryReported(n)

\* C4: in every run that reads every existing target file (so that it
\* ends normally), the output holds one line per pattern of each entry whose
\* file exists and exactly one line for each entry whose file is missing.
C4_CompleteReport ==
  Finished =>
    /\ Len(calls) = NumEntries
    /\ \A n \in 1..NumEntries : EntryReported(n)

C4_Witness ==
  /\ Finished
  /\ calls[1].kind = "text" /\ calls[2].kind = "missing"
  /\ calls[5].kind = "missing"

\* C6 as claimed: every status is the pass glyph, the fail glyph or the
\* plain string "FILE MISSING".
C6_PlainStatuses ==
  \A n \in 1..Len(results) :
    results[n][2] \in {PassGlyph, FailGlyph, "FILE MISSING"}

\* C6: every status of the report, and of every printed line
\* "<key>: <status>", is one of three values: the pass glyph, the fail glyph,
\* or the fail glyph followed by " FILE MISSING"; the last is the status of
\* exactly the keys that are the path of a file found missing.
C6_ThreeStatuses ==
  /\ \A n \in 1..Len(results) :
       /\ results[n][2] \in {"U+2705", "U+274C", "U+274C FILE MISSING"}
       /\ results[n][2] = "U+274C FILE MISSING" <=>
            \E e \in 1..Len(calls) :
              calls[e].kind = "missing" /\ results[n][1] = FileOf(e)
  /\ \A m \in 1..Len(out) :
       \E n \in 1..Len(results) :
         out[m] = results[n][1] \o ": " \o results[n][2]

C6_Witness ==
  /\ Finished /\ SomeMissing
  /\ \E n \in 1..Len(results) : results[n][2] = PassGlyph
  /\ SomeFailed

\* The items of the first n calls, call after call, each in its own order.
RECURSIVE ItemsOf(_)
ItemsOf(n) == IF n = 0 THEN <<>> ELSE ItemsOf(n - 1) \o calls[n].ret

\* C7: the report's order is fixed. The n-th call is for the n-th manifest
\* entry (docker-compose.yml, nginx.conf, .env.example, src/lib/mcp/config.ts,
\* src/app/api/mcp/config/route.ts), its keys are the file or the patterns in
\* their declared order, and the lines are printed in key-insertion order:
\* the output is a function of what the five calls saw.
C7_FixedOrder ==
  /\ [e \in 1..NumEntries |-> FileOf(e)] =
       <<"docker-compose.yml", "nginx.conf", ".env.example",
         "src/lib/mcp/config.ts", "src/app/api/mcp/config/route.ts">>
  /\ \A n \in 1..Len(calls) :
       calls[n].ret # Raised =>
         KeySeq(calls[n].ret) =
           IF calls[n].kind = "missing" THEN <<FileOf(n)>> ELSE Patterns(n)
  /\ AllRead =>
       /\ results = ItemsOf(Len(calls))
       /\ Len(out) <= Len(results)
       /\ \A m \in 1..Len(out) : out[m] = Line(ItemsOf(Len(calls))[m])
  /\ Finished => Len(out) = Len(ItemsOf(NumEntries))

C7_Witness ==
  /\ Finished /\ SomeMissing
  /\ calls[1].kind = "text" /\ calls[3].kind = "text"
  /\ Len(out) > NumEntries

\* C9: nothing is printed before all five entries are checked: while
\* checking, and after a read that failed, the output is empty, also when
\* earlier entries were checked without failure.
C9_AllOrNothing ==
  /\ pc \in {"check", "crashed"} => out = <<>>
  /\ out # <<>> => Len(calls) = NumEntries /\ AllRead

C9_Witness ==
  /\ pc = "crashed" /\ Len(calls) >= 3
  /\ calls[1].kind = "text" /\ calls[2].kind = "missing"
  /\ out = <<>>

RECURSIVE LinesDue(_)
LinesDue(n) ==
  IF n = 0 THEN 0
  ELSE LinesDue(n - 1) +
         (IF calls[n].kind = "missing" THEN 1 ELSE Len(Patterns(n)))

\* C10: the 15 patterns and 5 file paths of the manifest are 20 different
\* strings, so no merge overwrites: each key keeps the status its own
\* entry's call gave it, and a finished run prints as many lines as the
\* entries are due (1 for a missing file, else 4, 3, 4, 2, 2), between 5
\* and 15.
C10_NoOverwrite ==
  /\ Cardinality(ManifestKeys) = 20
  /\ [e \in 1..NumEntries |-> Len(Patterns(e))] = <<4, 3, 4, 2, 2>>
  /\ \A n \in 1..Len(calls) :
       calls[n].ret # Raised =>
         \A m \in 1..Len(calls[n].ret) :
           /\ HasKey(results, calls[n].ret[m][1])
           /\ Get(results, calls[n].ret[m][1]) = calls[n].ret[m][2]
  /\ Finished =>
       /\ Len(out) = LinesDue(NumEntries)
       /\ Len(out) >= 5 /\ Len(out) <= 15

C10_Witness ==
  /\ Finished /\ Len(out) = 10
  /\ calls[1].kind = "missing" /\ calls[5].kind = "missing"

\* ---- the merge

Merged == mPc = "ret"

\* C8: results.update(other) is insert-or-overwrite. Afterwards every key
\* of other has other's status, a key that was already there is overwritten
\* where it stood and is still one item, every other key keeps its status,
\* every earlier key its position, and the new keys follow in other's order.
C8_InsertOrOverwrite ==
  Merged =>
    /\ IsDict(mOut)
    /\ Keys(mOut) = Keys(mAcc) \cup Keys(mNew)
    /\ \A k \in Keys(mNew) : Get(mOut, k) = Get(mNew, k)
    /\ \A k \in Keys(mAcc) \ Keys(mNew) : Get(mOut, k) = Get(mAcc, k)
    /\ \A n \in 1..Len(mAcc) : mOut[n][1] = mAcc[n][1]
    /\ SubSeq(KeySeq(mOut), Len(mAcc) + 1, Len(mOut)) =
         SelectSeq(KeySeq(mNew), LAMBDA k : k \notin Keys(mAcc))

\* A key overwritten with another status, next to one left alone.
C8_Witness ==
  /\ Merged /\ Len(mAcc) = MaxDict
  /\ mAcc[1][1] \in Keys(mNew)
  /\ Get(mNew, mAcc[1][1]) # mAcc[1][2]
  /\ mAcc[MaxDict][1] \notin Keys(mNew)

====
